---- MODULE Spec2Model ----
(***************************************************************************)
(* The persistent result cache of xhinobi (src/src/cache.rs): the sessions *)
(* directory with one payload file per entry, the index file               *)
(* cache_index.json, and the operations get_cache_dir, save_to_cache,      *)
(* update_cache_index, cleanup_cache, load_most_recent_cache,              *)
(* list_cache_entries and clear_cache.                                     *)
(*                                                                         *)
(* Time is counted in ticks of the UTC clock.  Sizes are counted in bytes. *)
(* The three retention limits keep the names of cache.rs; their values are *)
(* scaled down (50 entries -> 3, 100 MB -> 9 bytes, 90 days -> 4 ticks) so *)
(* that every limit is reached within a few saves.                         *)
(***************************************************************************)
EXTENDS Integers, Sequences, FiniteSets, TLC

\* cache.rs:13 (50 there; scaled)
MAX_CACHE_ENTRIES == 3
\* cache.rs:14 (100 there; scaled together with BytesPerMB)
MAX_CACHE_SIZE_MB == 9
\* cache.rs:15 (90 there; scaled together with SecondsPerDay)
MAX_CACHE_AGE_DAYS == 2
\* cache.rs:282, the factor 1024 * 1024 (scaled)
BytesPerMB == 1
\* cache.rs:270, chrono::Duration::days (86400 seconds a day; scaled)
SecondsPerDay == 1

\* Clock ticks in one second: a timestamp keeps its sub-second part, the
\* filename format "%Y-%m-%d_%H-%M-%S" of cache.rs:91 drops it.
TicksPerSecond == 2
\* The clock runs from 0 to MaxTime.
MaxTime == 5
\* Number of save invocations in one behaviour.
MaxSaves == 4
\* Number of save invocations in one behaviour of the two processes.
MaxConcSaves == 2
\* Number of save invocations in one behaviour on the failing file system.
MaxFaultySaves == 3
\* Number of invocations in one behaviour in which a file operation fails.
MaxFaults == 2
\* Number of records of an index handed to the size pass on its own.
MaxIndexLen == 3

VARIABLES
    now,        \* the UTC clock, in ticks
    files,      \* the sessions directory: file name -> file content
    indexFile,  \* sessions/cache_index.json: [state, entries]
    hist,       \* the save invocations so far: how many, when the last one
                \* was, whether their timestamps were strictly increasing
    faults,     \* invocations so far in which a file operation failed
    last,       \* what the last completed operation did (history)
    procs,      \* the concurrent save invocations: process -> position and locals
    env,        \* the --cache-dir override, the environment variables, and
                \* whether directories can be created
    dirs        \* the sessions directories that exist (paths)

vars == <<now, files, indexFile, hist, faults, last, procs, env, dirs>>

----------------------------------------------------------------------------
\* get_cache_dir

\* cache.rs:16
CACHE_DIR_NAME == "xhinobi"

\* Option::None: no override given, a variable that is not set
None == "None"

\* PathBuf::from(text)
PathFrom(text) == <<text>>

\* path.join(name), name a relative component
Join(path, name) == Append(path, name)

\* cache_dir.join("sessions")
SessionsDir(cache_dir) == Join(cache_dir, "sessions")

\* The value of an environment variable that is not valid Unicode
NotUnicode == "NotUnicode"

\* env::var(name).ok(): the value when the variable is set and valid Unicode
EnvVar(value) == IF value = NotUnicode THEN None ELSE value

\* The override and the environments get_cache_dir is run in: each variable
\* is unset, holds bytes that are not Unicode, or holds a text.
Envs ==
    [override : {None, "/custom"}, XDG_CACHE_HOME : {None, NotUnicode, "/xdg"},
     HOME : {None, NotUnicode, "/home/u"}, creatable : BOOLEAN]

\* The environment of the cache operations: no override, only HOME set
UserEnv ==
    [override |-> None, XDG_CACHE_HOME |-> None, HOME |-> "/home/u",
     creatable |-> TRUE]

\* ResolvedDir, had the home-relative default been preferred
ResolvedDir_HomeFirst(e) ==
    IF e.override # None THEN [ok |-> TRUE, path |-> PathFrom(e.override)]
    ELSE IF EnvVar(e.HOME) # None
    THEN [ok |-> TRUE,
          path |-> Join(Join(PathFrom(EnvVar(e.HOME)), ".cache"), CACHE_DIR_NAME)]
    ELSE IF EnvVar(e.XDG_CACHE_HOME) # None
    THEN [ok |-> TRUE,
          path |-> Join(PathFrom(EnvVar(e.XDG_CACHE_HOME)), CACHE_DIR_NAME)]
    ELSE [ok |-> FALSE, path |-> <<>>]

\* cache.rs:59-70: the override, else $XDG_CACHE_HOME/xhinobi, else
\* $HOME/.cache/xhinobi, else an error
ResolvedDir(e) ==
    IF e.override # None THEN [ok |-> TRUE, path |-> PathFrom(e.override)]
    ELSE IF EnvVar(e.XDG_CACHE_HOME) # None
    THEN [ok |-> TRUE,
          path |-> Join(PathFrom(EnvVar(e.XDG_CACHE_HOME)), CACHE_DIR_NAME)]
    ELSE IF EnvVar(e.HOME) # None
    THEN [ok |-> TRUE,
          path |-> Join(Join(PathFrom(EnvVar(e.HOME)), ".cache"), CACHE_DIR_NAME)]
    ELSE [ok |-> FALSE, path |-> <<>>]

\* fs::create_dir_all(dir): nothing to do when the directory exists, else it
\* is created when that is possible
CreateDirAll(dir, existing, creatable) ==
    IF dir \in existing THEN [ok |-> TRUE, dirs |-> existing]
    ELSE IF creatable THEN [ok |-> TRUE, dirs |-> existing \cup {dir}]
    ELSE [ok |-> FALSE, dirs |-> existing]

\* get_cache_dir in environment e, `existing` the sessions directories there are
GetCacheDir(e, existing) ==
    LET r == ResolvedDir(e)
    IN IF ~r.ok
       THEN [ok |-> FALSE, err |-> "Could not find HOME directory",
             path |-> <<>>, dirs |-> existing]
       ELSE LET c == CreateDirAll(SessionsDir(r.path), existing, e.creatable)
            IN IF c.ok THEN [ok |-> TRUE, err |-> "", path |-> r.path, dirs |-> c.dirs]
               ELSE [ok |-> FALSE, err |-> "Failed to create cache directory",
                     path |-> <<>>, dirs |-> c.dirs]

\* The sessions directories of the roots the environments resolve to
DirUniverse == {SessionsDir(ResolvedDir(e).path) : e \in {x \in Envs : ResolvedDir(x).ok}}

----------------------------------------------------------------------------
\* Payloads and the inputs of save_to_cache

Rep(c, n) == [i \in 1..n |-> c]

\* The arguments of save_to_cache: content, source_file_count, args_used,
\* token_count, token_counter.  Content lengths 1, 2, 7 add up to one byte
\* more than the budget; length 10 alone exceeds it.
SaveInputs ==
    { [content |-> Rep("a", 1), source_file_count |-> 1, args_used |-> "-m",
       token_count |-> 2, token_counter |-> "estimate"],
      [content |-> Rep("b", 2), source_file_count |-> 2, args_used |-> "-t",
       token_count |-> 1, token_counter |-> "estimate"],
      [content |-> Rep("c", 7), source_file_count |-> 3, args_used |-> "-m",
       token_count |-> 5, token_counter |-> "tiktoken-o200k"],
      [content |-> Rep("d", 10), source_file_count |-> 1, args_used |-> "",
       token_count |-> 8, token_counter |-> "estimate"] }

\* The arguments used on the file system that may fail: two payloads that
\* together exceed the budget.
FaultyInputs == {inp \in SaveInputs : Len(inp.content) \in {2, 7}}

\* env::current_dir() of the invocation
WorkingDir == "/work"

\* Filename, had the format kept the sub-second part of the timestamp
Filename_FullPrecision(timestamp) == [stem |-> timestamp, ext |-> ".cache"]

\* format!("{}.cache", timestamp.format("%Y-%m-%d_%H-%M-%S")): the timestamp
\* truncated to whole seconds, with the payload suffix.
Filename(timestamp) == [stem |-> timestamp \div TicksPerSecond, ext |-> ".cache"]

\* EndsWithCache, had the sweep taken every file of the directory
EndsWithCache_AnyName(name) == TRUE

\* filename.ends_with(".cache")
EndsWithCache(name) == name.ext = ".cache"

\* NewEntry, had the two counts been passed in each other's place
NewEntry_CountsSwapped(timestamp, inp) ==
    [timestamp |-> timestamp,
     content |-> inp.content,
     token_count |-> inp.source_file_count,
     token_counter |-> inp.token_counter,
     file_size |-> Len(inp.content),
     source_file_count |-> inp.token_count,
     args_used |-> inp.args_used,
     working_dir |-> WorkingDir]

\* The CacheEntry built by save_to_cache
NewEntry(timestamp, inp) ==
    [timestamp |-> timestamp,
     content |-> inp.content,
     token_count |-> inp.token_count,
     token_counter |-> inp.token_counter,
     file_size |-> Len(inp.content),
     source_file_count |-> inp.source_file_count,
     args_used |-> inp.args_used,
     working_dir |-> WorkingDir]

\* serde_json::to_string(&entry): the fields in declaration order
SerializeEntry(e) ==
    <<"CacheEntry", e.timestamp, e.content, e.token_count, e.token_counter,
      e.file_size, e.source_file_count, e.args_used, e.working_dir>>

\* serde_json::from_str::<CacheEntry>
DeserializeEntry(s) ==
    IF Len(s) = 9 /\ s[1] = "CacheEntry"
    THEN [ok |-> TRUE,
          entry |-> [timestamp |-> s[2], content |-> s[3], token_count |-> s[4],
                     token_counter |-> s[5], file_size |-> s[6],
                     source_file_count |-> s[7], args_used |-> s[8],
                     working_dir |-> s[9]]]
    ELSE [ok |-> FALSE, entry |-> <<>>]

\* The CacheIndexEntry built by update_cache_index
IndexEntry(entry, filename) ==
    [filename |-> filename,
     timestamp |-> entry.timestamp,
     token_count |-> entry.token_count,
     token_counter |-> entry.token_counter,
     file_size |-> entry.file_size,
     source_file_count |-> entry.source_file_count,
     args_used |-> entry.args_used,
     working_dir |-> entry.working_dir]

----------------------------------------------------------------------------
\* The file system

\* fs::write(path, content): create or overwrite
WriteFile(dir, name, content) == (name :> content) @@ dir

\* fs::remove_file(path), when it succeeds
RemoveFile(dir, name) == [n \in DOMAIN dir \ {name} |-> dir[n]]

\* let _ = fs::remove_file(path): a deletion that fails is ignored
TryRemove(dir, name, delFail) ==
    IF name \in delFail THEN dir ELSE RemoveFile(dir, name)

NoIndex == [state |-> "absent", entries |-> <<>>]
OkIndex(entries) == [state |-> "ok", entries |-> entries]

\* What fs::write leaves behind when it fails after it has created or
\* truncated the file: a prefix of the text, which serde_json cannot parse.
PartialText == <<"partial">>
PartialIndex == [state |-> "unparsable", entries |-> <<>>]

----------------------------------------------------------------------------
\* sort_by_key is a stable sort

InsertAsc(s, e) ==
    LET k == Cardinality({i \in 1..Len(s) : s[i].timestamp <= e.timestamp})
    IN SubSeq(s, 1, k) \o <<e>> \o SubSeq(s, k + 1, Len(s))

RECURSIVE SortAsc(_)
\* entries.sort_by_key(|e| e.timestamp)
SortAsc(s) ==
    IF s = <<>> THEN <<>>
    ELSE InsertAsc(SortAsc(SubSeq(s, 1, Len(s) - 1)), s[Len(s)])

InsertDesc(s, e) ==
    LET k == Cardinality({i \in 1..Len(s) : s[i].timestamp >= e.timestamp})
    IN SubSeq(s, 1, k) \o <<e>> \o SubSeq(s, k + 1, Len(s))

RECURSIVE SortDesc(_)
\* entries.sort_by_key(|e| std::cmp::Reverse(e.timestamp))
SortDesc(s) ==
    IF s = <<>> THEN <<>>
    ELSE InsertDesc(SortDesc(SubSeq(s, 1, Len(s) - 1)), s[Len(s)])

RECURSIVE TotalSize(_)
\* entries.iter().map(|e| e.file_size as u64).sum()
TotalSize(s) ==
    IF s = <<>> THEN 0 ELSE s[1].file_size + TotalSize(Tail(s))

----------------------------------------------------------------------------
\* update_cache_index: load the index (empty when the file is absent), push
\* the record of the new entry, write the whole index back.

\* LoadOrEmpty, had an index file that cannot be parsed counted as empty
LoadOrEmpty_Lenient(idx) ==
    IF idx.state = "ok" THEN [ok |-> TRUE, entries |-> idx.entries]
    ELSE [ok |-> TRUE, entries |-> <<>>]

\* The index as loaded by update_cache_index (cache.rs:232-237)
LoadOrEmpty(idx) ==
    IF idx.state = "absent" THEN [ok |-> TRUE, entries |-> <<>>]
    ELSE IF idx.state = "ok" THEN [ok |-> TRUE, entries |-> idx.entries]
    ELSE [ok |-> FALSE, entries |-> <<>>]

\* index.entries.push(index_entry)
PushEntry(entries, entry, filename) == Append(entries, IndexEntry(entry, filename))

\* UpdatedIndex, had it appended to the index as it is on disk at write time
UpdatedIndex_Merging(loadedEntries, onDisk, entry, filename) ==
    OkIndex(PushEntry(onDisk.entries, entry, filename))

\* The index file update_cache_index writes (cache.rs:250-253): the copy it
\* loaded plus the new record, whatever the file on disk holds by then.
UpdatedIndex(loadedEntries, onDisk, entry, filename) ==
    OkIndex(PushEntry(loadedEntries, entry, filename))

----------------------------------------------------------------------------
\* cleanup_cache

\* Utc::now() - chrono::Duration::days(MAX_CACHE_AGE_DAYS)
CutoffDate(t) == t - MAX_CACHE_AGE_DAYS * SecondsPerDay * TicksPerSecond

\* Retained, had the window been taken two ticks too long
Retained_TooLong(e, cutoff) == e.timestamp > cutoff - 2

\* index.entries.retain(|e| e.timestamp > cutoff_date)
Retained(e, cutoff) == e.timestamp > cutoff

AgePass(entries, cutoff) == SelectSeq(entries, LAMBDA e : Retained(e, cutoff))

\* sort ascending, truncate(MAX_CACHE_ENTRIES)
Truncated(sorted) == SubSeq(sorted, 1, MAX_CACHE_ENTRIES)

\* cache.rs:274-278
CountPass(entries) ==
    IF Len(entries) > MAX_CACHE_ENTRIES
    THEN SortDesc(Truncated(SortAsc(entries)))
    ELSE entries

\* MAX_CACHE_SIZE_MB * 1024 * 1024
MaxSizeBytes == MAX_CACHE_SIZE_MB * BytesPerMB

\* SizeLoopGuard, had the loop never been entered
SizeLoopGuard_Never(total, entries) == FALSE

\* SizeLoopGuard, had it gone on while the total is at the budget
SizeLoopGuard_AtBudget(total, entries) == total >= MaxSizeBytes /\ entries # <<>>

\* while total_size > max_size_bytes && !index.entries.is_empty()
SizeLoopGuard(total, entries) == total > MaxSizeBytes /\ entries # <<>>

RECURSIVE SizeLoop(_, _, _, _)
\* The while loop of cache.rs:286-299: drop the first record, subtract its
\* size, try to delete its file.
SizeLoop(entries, total, dir, delFail) ==
    IF SizeLoopGuard(total, entries)
    THEN SizeLoop(Tail(entries), total - entries[1].file_size,
                  TryRemove(dir, entries[1].filename, delFail), delFail)
    ELSE [entries |-> entries, total |-> total, files |-> dir]

\* SizePass, had it left the survivors in the ascending order of its loop
SizePass_KeepsAscending(entries, dir, delFail) ==
    IF TotalSize(entries) > MaxSizeBytes
    THEN LET r == SizeLoop(SortAsc(entries), TotalSize(entries), dir, delFail)
         IN [entries |-> r.entries, total |-> r.total, files |-> r.files]
    ELSE [entries |-> entries, total |-> TotalSize(entries), files |-> dir]

\* cache.rs:280-301
SizePass(entries, dir, delFail) ==
    IF TotalSize(entries) > MaxSizeBytes
    THEN LET r == SizeLoop(SortAsc(entries), TotalSize(entries), dir, delFail)
         IN [entries |-> SortDesc(r.entries), total |-> r.total, files |-> r.files]
    ELSE [entries |-> entries, total |-> TotalSize(entries), files |-> dir]

\* The file names of the records the size loop removed: the first records of
\* the ascending order, as many as are missing from the result.
EvictedBySize(before, after) ==
    {SortAsc(before)[i].filename : i \in 1..(Len(before) - Len(after))}

\* cached_files: the file names of the surviving records
CachedFiles(entries) == {entries[i].filename : i \in 1..Len(entries)}

\* SweepTargets, had the sweep been skipped
SweepTargets_None(dir, entries) == {}

\* The files the reconciliation sweep tries to delete (cache.rs:312)
SweepTargets(dir, entries) ==
    {n \in DOMAIN dir : EndsWithCache(n) /\ n \notin CachedFiles(entries)}

\* cache.rs:303-318
Sweep(dir, entries, delFail) ==
    [n \in DOMAIN dir \ (SweepTargets(dir, entries) \ delFail) |-> dir[n]]

\* CleanupCache, had its sweep, instead of deleting a payload file that no
\* record names, made a record for it from what the file holds
CleanupCache_Adopting(dir, idx, t, delFail, write) ==
    IF idx.state = "absent"
    THEN [ok |-> TRUE, ran |-> FALSE, files |-> dir, index |-> idx,
          loaded |-> <<>>, afterAge |-> <<>>, afterCount |-> <<>>,
          final |-> <<>>, cutoff |-> 0, filesIn |-> dir, delFail |-> {}]
    ELSE IF idx.state # "ok"
    THEN [ok |-> FALSE, ran |-> FALSE, files |-> dir, index |-> idx,
          loaded |-> <<>>, afterAge |-> <<>>, afterCount |-> <<>>,
          final |-> <<>>, cutoff |-> 0, filesIn |-> dir, delFail |-> {}]
    ELSE LET cutoff == CutoffDate(t)
             aged == AgePass(idx.entries, cutoff)
             counted == CountPass(aged)
             sized == SizePass(counted, dir, delFail)
             found == {n \in SweepTargets(sized.files, sized.entries) :
                         DeserializeEntry(sized.files[n]).ok}
             adopted == IF found = {} THEN sized.entries
                        ELSE LET n == CHOOSE m \in found : TRUE
                             IN Append(sized.entries,
                                       IndexEntry(DeserializeEntry(sized.files[n]).entry, n))
         IN [ok |-> write = "ok", ran |-> write = "ok", files |-> sized.files,
             index |-> IF write = "ok" THEN OkIndex(adopted)
                       ELSE IF write = "partial" THEN PartialIndex ELSE idx,
             loaded |-> idx.entries, afterAge |-> aged, afterCount |-> counted,
             final |-> adopted, cutoff |-> cutoff, filesIn |-> dir,
             delFail |-> {}]

\* CleanupCache, had it written the index before the size pass and the sweep
\* delete their files: a failing write then ends the pass with no file deleted
CleanupCache_WriteFirst(dir, idx, t, delFail, write) ==
    IF idx.state = "absent"
    THEN [ok |-> TRUE, ran |-> FALSE, files |-> dir, index |-> idx,
          loaded |-> <<>>, afterAge |-> <<>>, afterCount |-> <<>>,
          final |-> <<>>, cutoff |-> 0, filesIn |-> dir, delFail |-> {}]
    ELSE IF idx.state # "ok"
    THEN [ok |-> FALSE, ran |-> FALSE, files |-> dir, index |-> idx,
          loaded |-> <<>>, afterAge |-> <<>>, afterCount |-> <<>>,
          final |-> <<>>, cutoff |-> 0, filesIn |-> dir, delFail |-> {}]
    ELSE LET cutoff == CutoffDate(t)
             aged == AgePass(idx.entries, cutoff)
             counted == CountPass(aged)
             sized == SizePass(counted, dir, delFail)
             swept == Sweep(sized.files, sized.entries, delFail)
             attempted == EvictedBySize(counted, sized.entries)
                            \cup SweepTargets(sized.files, sized.entries)
             failed == {n \in delFail : n \in DOMAIN dir /\ n \in attempted}
         IN [ok |-> write = "ok", ran |-> write = "ok",
             files |-> IF write = "ok" THEN swept ELSE dir,
             index |-> IF write = "ok" THEN OkIndex(sized.entries)
                       ELSE IF write = "partial" THEN PartialIndex ELSE idx,
             loaded |-> idx.entries, afterAge |-> aged, afterCount |-> counted,
             final |-> sized.entries, cutoff |-> cutoff, filesIn |-> dir,
             delFail |-> IF write = "ok" THEN failed ELSE {}]

\* One eviction pass over directory dir and index file idx at clock time t.
\* delFail: the files whose deletion fails; write: the outcome of the final
\* fs::write of the index.
CleanupCache(dir, idx, t, delFail, write) ==
    IF idx.state = "absent"
    THEN [ok |-> TRUE, ran |-> FALSE, files |-> dir, index |-> idx,
          loaded |-> <<>>, afterAge |-> <<>>, afterCount |-> <<>>,
          final |-> <<>>, cutoff |-> 0, filesIn |-> dir, delFail |-> {}]
    ELSE IF idx.state # "ok"
    THEN [ok |-> FALSE, ran |-> FALSE, files |-> dir, index |-> idx,
          loaded |-> <<>>, afterAge |-> <<>>, afterCount |-> <<>>,
          final |-> <<>>, cutoff |-> 0, filesIn |-> dir, delFail |-> {}]
    ELSE LET cutoff == CutoffDate(t)
             aged == AgePass(idx.entries, cutoff)
             counted == CountPass(aged)
             sized == SizePass(counted, dir, delFail)
             swept == Sweep(sized.files, sized.entries, delFail)
             \* the deletions that were attempted and failed
             attempted == EvictedBySize(counted, sized.entries)
                            \cup SweepTargets(sized.files, sized.entries)
             failed == {n \in delFail : n \in DOMAIN dir /\ n \in attempted}
         IN [ok |-> write = "ok", ran |-> write = "ok", files |-> swept,
             index |-> IF write = "ok" THEN OkIndex(sized.entries)
                       ELSE IF write = "partial" THEN PartialIndex ELSE idx,
             loaded |-> idx.entries, afterAge |-> aged, afterCount |-> counted,
             final |-> sized.entries, cutoff |-> cutoff, filesIn |-> dir,
             delFail |-> failed]

----------------------------------------------------------------------------
\* load_most_recent_cache

\* index.entries.iter().max_by_key(|e| e.timestamp): of several records with
\* the maximum timestamp, the last one.
MaxByKey(entries) ==
    LET top == {i \in 1..Len(entries) :
                  \A j \in 1..Len(entries) : entries[j].timestamp <= entries[i].timestamp}
        k == CHOOSE i \in top : \A j \in top : j <= i
    IN entries[k]

\* LoadMostRecentCache, had it fallen back to the newest record whose payload
\* file can be read and parsed
LoadMostRecentCache_FallsBack(dir, idx) ==
    IF idx.state = "absent" THEN [ok |-> FALSE, err |-> "No cache found", entry |-> <<>>]
    ELSE IF idx.state # "ok"
    THEN [ok |-> FALSE, err |-> "Failed to parse cache index", entry |-> <<>>]
    ELSE IF idx.entries = <<>>
    THEN [ok |-> FALSE, err |-> "No cache entries found", entry |-> <<>>]
    ELSE LET readable == SelectSeq(idx.entries,
                            LAMBDA e : /\ e.filename \in DOMAIN dir
                                       /\ DeserializeEntry(dir[e.filename]).ok)
         IN IF readable = <<>>
            THEN [ok |-> FALSE, err |-> "Failed to read cache file", entry |-> <<>>]
            ELSE [ok |-> TRUE, err |-> "",
                  entry |-> DeserializeEntry(dir[MaxByKey(readable).filename]).entry]

\* cache.rs:130-155, as a function of the directory and the index file
LoadMostRecentCache(dir, idx) ==
    IF idx.state = "absent" THEN [ok |-> FALSE, err |-> "No cache found", entry |-> <<>>]
    ELSE IF idx.state # "ok"
    THEN [ok |-> FALSE, err |-> "Failed to parse cache index", entry |-> <<>>]
    ELSE IF idx.entries = <<>>
    THEN [ok |-> FALSE, err |-> "No cache entries found", entry |-> <<>>]
    ELSE LET most_recent == MaxByKey(idx.entries)
         IN IF most_recent.filename \notin DOMAIN dir
            THEN [ok |-> FALSE, err |-> "Failed to read cache file", entry |-> <<>>]
            ELSE LET parsed == DeserializeEntry(dir[most_recent.filename])
                 IN IF parsed.ok
                    THEN [ok |-> TRUE, err |-> "", entry |-> parsed.entry]
                    ELSE [ok |-> FALSE, err |-> "Failed to parse cache entry",
                          entry |-> <<>>]

----------------------------------------------------------------------------
\* list_cache_entries

\* ListCacheEntries, had it sorted oldest first
ListCacheEntries_OldestFirst(idx) ==
    IF idx.state = "absent" THEN [ok |-> TRUE, err |-> "", entries |-> <<>>]
    ELSE IF idx.state # "ok"
    THEN [ok |-> FALSE, err |-> "Failed to parse cache index", entries |-> <<>>]
    ELSE [ok |-> TRUE, err |-> "", entries |-> SortAsc(idx.entries)]

\* cache.rs:157-172, as a function of the index file
ListCacheEntries(idx) ==
    IF idx.state = "absent" THEN [ok |-> TRUE, err |-> "", entries |-> <<>>]
    ELSE IF idx.state # "ok"
    THEN [ok |-> FALSE, err |-> "Failed to parse cache index", entries |-> <<>>]
    ELSE [ok |-> TRUE, err |-> "", entries |-> SortDesc(idx.entries)]

----------------------------------------------------------------------------
\* clear_cache

\* ClearedCache, had it removed the payload files only
ClearedCache_KeepsIndex(dir, idx, e, existing) ==
    LET d == GetCacheDir(e, existing)
    IN IF ~d.ok
       THEN [ok |-> FALSE, files |-> dir, index |-> idx, dirs |-> d.dirs]
       ELSE IF SessionsDir(d.path) \in d.dirs
       THEN [ok |-> TRUE, files |-> <<>>, index |-> idx, dirs |-> d.dirs]
       ELSE [ok |-> TRUE, files |-> dir, index |-> idx, dirs |-> d.dirs]

\* cache.rs:214-227: get_cache_dir, then, the sessions directory being there,
\* remove_dir_all and create_dir
ClearedCache(dir, idx, e, existing) ==
    LET d == GetCacheDir(e, existing)
    IN IF ~d.ok
       THEN [ok |-> FALSE, files |-> dir, index |-> idx, dirs |-> d.dirs]
       ELSE IF SessionsDir(d.path) \in d.dirs
       THEN [ok |-> TRUE, files |-> <<>>, index |-> NoIndex,
             dirs |-> (d.dirs \ {SessionsDir(d.path)}) \cup {SessionsDir(d.path)}]
       ELSE [ok |-> TRUE, files |-> dir, index |-> idx, dirs |-> d.dirs]

----------------------------------------------------------------------------
\* The history of the last completed operation

NoEviction ==
    [ran |-> FALSE, loaded |-> <<>>, afterAge |-> <<>>, afterCount |-> <<>>,
     final |-> <<>>, cutoff |-> 0, filesIn |-> <<>>, delFail |-> {}]

EvictionOf(c) ==
    [ran |-> c.ran, loaded |-> c.loaded, afterAge |-> c.afterAge,
     afterCount |-> c.afterCount, final |-> c.final, cutoff |-> c.cutoff,
     filesIn |-> c.filesIn, delFail |-> c.delFail]

NoLast(op) ==
    [op |-> op, by |-> 0, ok |-> TRUE, inp |-> <<>>, entry |-> <<>>,
     filename |-> <<>>, indexBefore |-> <<>>, ev |-> NoEviction, result |-> <<>>,
     fault |-> "none", prev |-> <<>>]

----------------------------------------------------------------------------
\* One whole save_to_cache invocation, run by one process alone.
\*   inp      the arguments
\*   fault    which fs::write fails, if any, and how
\*   delFail  the files whose deletion fails during the eviction pass
SaveToCache(dir, idx, t, inp, fault, delFail) ==
    LET entry == NewEntry(t, inp)
        filename == Filename(t)
        base == [NoLast("save") EXCEPT !.inp = inp, !.entry = entry,
                                       !.filename = filename, !.fault = fault]
    IN IF fault = "payload_write"
       THEN [files |-> dir, index |-> idx, last |-> [base EXCEPT !.ok = FALSE]]
       ELSE IF fault = "payload_partial"
       THEN [files |-> WriteFile(dir, filename, PartialText), index |-> idx,
             last |-> [base EXCEPT !.ok = FALSE]]
       ELSE LET dir1 == WriteFile(dir, filename, SerializeEntry(entry))
                loaded == LoadOrEmpty(idx)
            IN IF ~loaded.ok \/ fault = "index_write"
               THEN [files |-> dir1, index |-> idx,
                     last |-> [base EXCEPT !.ok = FALSE,
                                           !.indexBefore = loaded.entries]]
               ELSE IF fault = "index_partial"
               THEN [files |-> dir1, index |-> PartialIndex,
                     last |-> [base EXCEPT !.ok = FALSE,
                                           !.indexBefore = loaded.entries]]
               ELSE LET idx1 == UpdatedIndex(loaded.entries, idx, entry, filename)
                        c == CleanupCache(dir1, idx1, t, delFail,
                                          IF fault = "cleanup_write" THEN "fails"
                                          ELSE IF fault = "cleanup_partial"
                                          THEN "partial" ELSE "ok")
                    IN [files |-> c.files, index |-> c.index,
                        last |-> [base EXCEPT !.ok = c.ok,
                                              !.indexBefore = loaded.entries,
                                              !.ev = EvictionOf(c)]]

\* The fs::write of a save that fails before it has opened the file: of the
\* payload file (cache.rs:112), of the index in update_cache_index
\* (cache.rs:253), of the index in cleanup_cache (cache.rs:322)
Faults == {"none", "payload_write", "index_write", "cleanup_write"}

\* The same three writes failing after the file was created or truncated
PartialFaults == {"none", "payload_partial", "index_partial", "cleanup_partial"}

\* The file names a save at time t may meet in the directory
NamesAt(dir, t) == DOMAIN dir \cup {Filename(t)}

\* 1 when the invocation met a failing file operation, else 0
Faulted(fault, r) ==
    IF fault # "none" \/ r.last.ev.delFail # {} THEN 1 ELSE 0

\* The history after one more save invocation at time t
Saved(h, t) ==
    [saves |-> h.saves + 1, lastAt |-> t,
     increasing |-> h.increasing /\ (h.saves = 0 \/ h.lastAt < t)]

\* save_to_cache with its arguments drawn from `inputs`, its failing write
\* from `faultSet`, and, when `deleteMayFail`, at most one file that cannot be
\* deleted; at most `maxSaves` invocations in a behaviour.
SaveOp(inputs, faultSet, deleteMayFail, maxSaves) ==
    /\ hist.saves < maxSaves
    /\ \E inp \in inputs, fault \in faultSet :
       \E delFail \in {{}} \cup {{n} : n \in IF deleteMayFail
                                             THEN NamesAt(files, now) ELSE {}} :
          LET r == SaveToCache(files, indexFile, now, inp, fault, delFail)
          IN /\ faults + Faulted(fault, r) <= MaxFaults
             /\ faults' = faults + Faulted(fault, r)
             /\ files' = r.files
             /\ indexFile' = r.index
             /\ last' = r.last
    /\ hist' = Saved(hist, now)
    /\ GetCacheDir(env, dirs).ok
    /\ dirs' = GetCacheDir(env, dirs).dirs
    /\ UNCHANGED <<now, procs, env>>

\* A save on a file system whose operations all succeed
Save == SaveOp(SaveInputs, {"none"}, FALSE, MaxSaves)

\* A save on a file system whose writes and deletions may fail
FaultySave == SaveOp(FaultyInputs, Faults, TRUE, MaxFaultySaves)

\* A save on a file system whose writes may break off half-way
PartialSave == SaveOp(FaultyInputs, PartialFaults, FALSE, MaxFaultySaves)

\* A save next to a foreign file; deletions may fail, and so may the index
\* write of update_cache_index, which leaves a payload file without a record
ForeignSave == SaveOp(FaultyInputs, {"none", "index_write"}, TRUE, MaxFaultySaves)

\* The clock advances between invocations
Tick ==
    /\ now < MaxTime
    /\ now' = now + 1
    /\ last' = NoLast("tick")
    /\ UNCHANGED <<files, indexFile, hist, faults, procs, env, dirs>>

\* load_most_recent_cache
MostRecent ==
    /\ last.op # "mostRecent"
    /\ GetCacheDir(env, dirs).ok
    /\ dirs' = GetCacheDir(env, dirs).dirs
    /\ last' = [NoLast("mostRecent") EXCEPT
                  !.result = LoadMostRecentCache(files, indexFile),
                  !.ok = LoadMostRecentCache(files, indexFile).ok]
    /\ UNCHANGED <<now, files, indexFile, hist, faults, procs, env>>

\* A list that writes the sorted entries back to the index file
List_Persisting ==
    /\ last.op # "list"
    /\ GetCacheDir(env, dirs).ok
    /\ dirs' = GetCacheDir(env, dirs).dirs
    /\ last' = [NoLast("list") EXCEPT
                  !.result = ListCacheEntries(indexFile),
                  !.ok = ListCacheEntries(indexFile).ok]
    /\ indexFile' = IF ListCacheEntries(indexFile).ok
                    THEN OkIndex(ListCacheEntries(indexFile).entries)
                    ELSE indexFile
    /\ UNCHANGED <<now, files, hist, faults, procs, env>>

\* list_cache_entries
List ==
    /\ last.op # "list"
    /\ GetCacheDir(env, dirs).ok
    /\ dirs' = GetCacheDir(env, dirs).dirs
    /\ last' = [NoLast("list") EXCEPT
                  !.result = ListCacheEntries(indexFile),
                  !.ok = ListCacheEntries(indexFile).ok]
    /\ UNCHANGED <<now, files, indexFile, hist, faults, procs, env>>

\* clear_cache; last.inp tells what the clear found, and a second clear in
\* succession keeps the result of the first in last.prev
ClearCache ==
    /\ last.prev = <<>>
    /\ LET r == ClearedCache(files, indexFile, env, dirs)
       IN /\ files' = r.files
          /\ indexFile' = r.index
          /\ dirs' = r.dirs
          /\ last' = [NoLast("clear") EXCEPT
                        !.ok = r.ok, !.result = r,
                        !.inp = [index |-> indexFile.state,
                                 files |-> Cardinality(DOMAIN files)],
                        !.prev = IF last.op = "clear" THEN last.result ELSE <<>>]
    /\ UNCHANGED <<now, hist, faults, procs, env>>

\* get_cache_dir called on its own; a second call in succession keeps the
\* result of the first in last.prev
ResolveDirectory ==
    /\ last.prev = <<>>
    /\ LET r == GetCacheDir(env, dirs)
       IN /\ dirs' = r.dirs
          /\ last' = [NoLast("resolve") EXCEPT
                        !.ok = r.ok, !.result = r,
                        !.prev = IF last.op = "resolve" THEN last.result ELSE <<>>]
    /\ UNCHANGED <<now, files, indexFile, hist, faults, procs, env>>

----------------------------------------------------------------------------
\* The size pass of cleanup_cache (cache.rs:280-301) on its own, one loop
\* iteration a step, on an index taken from SizeIndexes.  last.result holds
\* the locals: the index entries, total_size, the iterations done so far and
\* the entries the pass began with.

\* The records an index may hold: those of saves of the inputs at the start
\* of the first and of the second second
SizeRecords ==
    {IndexEntry(NewEntry(t, inp), Filename(t)) :
        t \in {0, TicksPerSecond}, inp \in SaveInputs}

\* The indexes of at most MaxIndexLen records
SizeIndexes == UNION {[1..n -> SizeRecords] : n \in 0..MaxIndexLen}

\* cache.rs:281-285: the sum, the test against the budget, the ascending sort
SizeBegin ==
    /\ last.op = "init"
    /\ last' = [NoLast("size_pass") EXCEPT
                  !.result =
                     [pc |-> IF TotalSize(indexFile.entries) > MaxSizeBytes
                             THEN "loop" ELSE "done",
                      entries |-> IF TotalSize(indexFile.entries) > MaxSizeBytes
                                  THEN SortAsc(indexFile.entries)
                                  ELSE indexFile.entries,
                      total |-> TotalSize(indexFile.entries),
                      iterations |-> 0,
                      began |-> indexFile.entries]]
    /\ UNCHANGED <<now, files, indexFile, hist, faults, procs, env, dirs>>

\* cache.rs:286-298: one iteration of the while loop
SizeIteration ==
    /\ last.op = "size_pass" /\ last.result.pc = "loop"
    /\ SizeLoopGuard(last.result.total, last.result.entries)
    /\ last' = [last EXCEPT
                  !.result.total = @ - last.result.entries[1].file_size,
                  !.result.entries = Tail(@),
                  !.result.iterations = @ + 1]
    /\ files' = TryRemove(files, last.result.entries[1].filename, {})
    /\ UNCHANGED <<now, indexFile, hist, faults, procs, env, dirs>>

\* cache.rs:286, 300: the loop condition is false; the descending sort
SizeEnd ==
    /\ last.op = "size_pass" /\ last.result.pc = "loop"
    /\ ~SizeLoopGuard(last.result.total, last.result.entries)
    /\ last' = [last EXCEPT !.result.pc = "done",
                            !.result.entries = SortDesc(@)]
    /\ UNCHANGED <<now, files, indexFile, hist, faults, procs, env, dirs>>

----------------------------------------------------------------------------
\* Two save_to_cache invocations in separate processes on the same directory.
\* Each file-system call of the invocation is one step; what a process holds
\* in memory between its calls is in procs[p]; `last` names the process that
\* wrote the index file last.

Procs == {1, 2}

Idle == [pc |-> "idle", inp |-> <<>>, entry |-> <<>>, filename |-> <<>>,
         loaded |-> <<>>, index |-> <<>>]

\* The arguments of the concurrent invocations
ConcInputs == FaultyInputs

\* cache.rs:90-112: take the timestamp, write the payload file
WritePayload(p) ==
    /\ procs[p].pc \in {"idle", "done"}
    /\ hist.saves < MaxConcSaves
    /\ \E inp \in ConcInputs :
          LET entry == NewEntry(now, inp)
              filename == Filename(now)
          IN /\ files' = WriteFile(files, filename, SerializeEntry(entry))
             /\ procs' = [procs EXCEPT ![p] =
                            [Idle EXCEPT !.pc = "payload_written", !.inp = inp,
                                         !.entry = entry, !.filename = filename]]
             /\ hist' = Saved(hist, now)
    /\ GetCacheDir(env, dirs).ok
    /\ dirs' = GetCacheDir(env, dirs).dirs
    /\ UNCHANGED <<now, indexFile, faults, last, env>>

\* cache.rs:232-237: update_cache_index reads the index file
ReadIndex(p) ==
    /\ procs[p].pc = "payload_written"
    /\ procs' = [procs EXCEPT ![p].pc = IF LoadOrEmpty(indexFile).ok
                                        THEN "index_loaded" ELSE "done",
                              ![p].loaded = LoadOrEmpty(indexFile).entries]
    /\ UNCHANGED <<now, files, indexFile, hist, faults, last, env, dirs>>

\* cache.rs:250-253: update_cache_index writes the index file
WriteIndex(p) ==
    /\ procs[p].pc = "index_loaded"
    /\ indexFile' = UpdatedIndex(procs[p].loaded, indexFile, procs[p].entry,
                                 procs[p].filename)
    /\ procs' = [procs EXCEPT ![p].pc = "index_written"]
    /\ last' = [NoLast("index_write") EXCEPT !.by = p]
    /\ UNCHANGED <<now, files, hist, faults, env, dirs>>

\* cache.rs:262-278: cleanup_cache reads the index file and applies the age
\* and count bounds to its copy
EvictRead(p) ==
    /\ procs[p].pc = "index_written"
    /\ procs' = [procs EXCEPT
                   ![p].pc = IF indexFile.state = "ok" THEN "evict_loaded" ELSE "done",
                   ![p].index = CountPass(AgePass(indexFile.entries, CutoffDate(now)))]
    /\ UNCHANGED <<now, files, indexFile, hist, faults, last, env, dirs>>

\* cache.rs:280-301: the size bound, with its file deletions
EvictSize(p) ==
    /\ procs[p].pc = "evict_loaded"
    /\ LET r == SizePass(procs[p].index, files, {})
       IN /\ files' = r.files
          /\ procs' = [procs EXCEPT ![p].pc = "evict_sized", ![p].index = r.entries]
    /\ UNCHANGED <<now, indexFile, hist, faults, last, env, dirs>>

\* cache.rs:303-318: the reconciliation sweep
EvictSweep(p) ==
    /\ procs[p].pc = "evict_sized"
    /\ files' = Sweep(files, procs[p].index, {})
    /\ procs' = [procs EXCEPT ![p].pc = "evict_swept"]
    /\ UNCHANGED <<now, indexFile, hist, faults, last, env, dirs>>

\* cache.rs:320-322: cleanup_cache writes the index file
EvictWrite(p) ==
    /\ procs[p].pc = "evict_swept"
    /\ indexFile' = OkIndex(procs[p].index)
    /\ procs' = [procs EXCEPT ![p].pc = "done"]
    /\ last' = [NoLast("evict_write") EXCEPT !.by = p]
    /\ UNCHANGED <<now, files, hist, faults, env, dirs>>

\* The clock advances while the invocations run
ClockTick ==
    /\ now < MaxTime
    /\ now' = now + 1
    /\ UNCHANGED <<files, indexFile, hist, faults, last, procs, env, dirs>>

Init ==
    /\ now = 0
    /\ files = <<>>
    /\ indexFile = NoIndex
    /\ hist = [saves |-> 0, lastAt |-> 0, increasing |-> TRUE]
    /\ faults = 0
    /\ last = NoLast("init")
    /\ procs = [p \in Procs |-> Idle]
    /\ env = UserEnv
    /\ dirs = {}

Next == Save \/ Tick \/ MostRecent \/ ClearCache

Spec == Init /\ [][Next]_vars

\* Two concurrent invocations
NextConc ==
    \/ ClockTick
    \/ \E p \in Procs : WritePayload(p)
    \/ \E p \in Procs : ReadIndex(p)
    \/ \E p \in Procs : WriteIndex(p)
    \/ \E p \in Procs : EvictRead(p)
    \/ \E p \in Procs : EvictSize(p)
    \/ \E p \in Procs : EvictSweep(p)
    \/ \E p \in Procs : EvictWrite(p)

SpecConc == Init /\ [][NextConc]_vars

\* A file in the sessions directory that the cache did not write: the name
\* of a first-second payload file but with another suffix
ForeignFile == [stem |-> 0, ext |-> ".txt"]
ForeignDir == (ForeignFile :> <<"notes">>)

\* The same cache on a file system whose operations may fail
NextFaulty == FaultySave \/ Tick \/ ClearCache

SpecFaulty == Init /\ [][NextFaulty]_vars

\* The same cache on a file system whose writes may break off half-way
NextPartial == PartialSave \/ Tick \/ MostRecent \/ ClearCache

SpecPartial == Init /\ [][NextPartial]_vars

\* Saves, some of them failing part-way, with both read operations, from a
\* state in which the sessions directory does not exist yet
NextRead == PartialSave \/ Tick \/ MostRecent \/ List

SpecRead == Init /\ [][NextRead]_vars

\* The same cache with a foreign file in its sessions directory from the
\* start, on a file system whose deletions may fail
InitForeign ==
    /\ now = 0
    /\ files = ForeignDir
    /\ dirs = {SessionsDir(ResolvedDir(UserEnv).path)}
    /\ indexFile = NoIndex
    /\ hist = [saves |-> 0, lastAt |-> 0, increasing |-> TRUE]
    /\ faults = 0
    /\ last = NoLast("init")
    /\ procs = [p \in Procs |-> Idle]
    /\ env = UserEnv

NextForeign == ForeignSave \/ Tick \/ MostRecent \/ List \/ ClearCache

SpecForeign == InitForeign /\ [][NextForeign]_vars

\* get_cache_dir on its own, in every environment and over every set of
\* directories that exist beforehand
InitDir ==
    /\ now = 0
    /\ files = <<>>
    /\ indexFile = NoIndex
    /\ hist = [saves |-> 0, lastAt |-> 0, increasing |-> TRUE]
    /\ faults = 0
    /\ last = NoLast("init")
    /\ procs = [p \in Procs |-> Idle]
    /\ env \in Envs
    /\ dirs \in SUBSET DirUniverse

NextDir == ResolveDirectory

SpecDir == InitDir /\ [][NextDir]_vars

\* The size pass on its own, on every index of SizeIndexes, every payload
\* file of the index being in the directory
InitSize ==
    /\ now = TicksPerSecond
    /\ indexFile \in {OkIndex(s) : s \in SizeIndexes}
    /\ files = [n \in CachedFiles(indexFile.entries) |-> PartialText]
    /\ hist = [saves |-> 0, lastAt |-> 0, increasing |-> TRUE]
    /\ faults = 0
    /\ last = NoLast("init")
    /\ procs = [p \in Procs |-> Idle]
    /\ env = UserEnv
    /\ dirs = {SessionsDir(ResolvedDir(UserEnv).path)}

NextSize == SizeBegin \/ SizeIteration \/ SizeEnd

SpecSize == InitSize /\ [][NextSize]_vars

----------------------------------------------------------------------------
\* Vocabulary of the properties

Range(s) == {s[i] : i \in 1..Len(s)}

\* How often record x occurs in the sequence s
Count(s, x) == Cardinality({i \in 1..Len(s) : s[i] = x})

\* The records of `before` that are missing from `after`
Dropped(before, after) == {x \in Range(before) : Count(before, x) > Count(after, x)}

\* The last operation was a save whose eviction pass ran to its end
PassCompleted == last.op = "save" /\ last.ev.ran

\* The cutoff of a pass run at the present clock time
Cutoff == now - MAX_CACHE_AGE_DAYS * SecondsPerDay * TicksPerSecond

\* The byte budget
Budget == MAX_CACHE_SIZE_MB * BytesPerMB


\* What a round trip through the payload file of the last save must give back
SameAsSaved(e, inp) ==
    /\ e.content = inp.content
    /\ e.token_count = inp.token_count
    /\ e.source_file_count = inp.source_file_count

----------------------------------------------------------------------------
\* C1: after a sequence of successful saves with strictly increasing
\* timestamps, mostRecent returns the entry of the last save.  Stated here for
\* the sequences that stay inside the age window and the byte budget, where
\* only the count bound can act: the claim covers them, and they fail.
C1_MostRecentReturnsLastSave ==
    ( /\ last.op = "save" /\ last.ok /\ faults = 0
      /\ hist.increasing
      /\ last.ev.afterAge = last.ev.loaded
      /\ TotalSize(last.ev.loaded) <= Budget )
    => LoadMostRecentCache(files, indexFile)
         = [ok |-> TRUE, err |-> "", entry |-> last.entry]

\* C2: when more than MAX_CACHE_ENTRIES records survive the age pass, the
\* count pass leaves exactly MAX_CACHE_ENTRIES records and they are the newest:
\* no dropped record is newer than a kept one.  Stated for saves whose
\* timestamps strictly increase, so that "newest" is unambiguous.
C2_CountKeepsNewest ==
    (PassCompleted /\ hist.increasing /\ Len(last.ev.afterAge) > MAX_CACHE_ENTRIES)
    => /\ Len(last.ev.afterCount) = MAX_CACHE_ENTRIES
       /\ \A d \in Dropped(last.ev.afterAge, last.ev.afterCount) :
             \A k \in Range(last.ev.afterCount) : d.timestamp <= k.timestamp

\* C3: right after an eviction pass every record of the persisted index names
\* a payload file that exists in the directory.  Stated for saves whose
\* timestamps strictly increase; the claim covers every sequence of saves.
C3_IndexNamesExistingFiles ==
    (PassCompleted /\ hist.increasing)
    => \A e \in Range(indexFile.entries) : e.filename \in DOMAIN files

\* C4: a record whose timestamp equals the cutoff survives the age pass.
C4_BoundaryEntryRetained ==
    PassCompleted
    => \A e \in Range(last.ev.loaded) :
          e.timestamp = Cutoff => e \in Range(last.ev.afterAge)

\* C5: after an eviction pass the persisted index holds no record older than
\* the retention window.
C5_NoEntryOlderThanWindow ==
    PassCompleted
    => \A e \in Range(indexFile.entries) : ~(e.timestamp < Cutoff)

\* C5 witness: a pass met a record older than the window and dropped it.
C5_Witness ==
    /\ PassCompleted
    /\ \E e \in Range(last.ev.loaded) :
          e.timestamp < Cutoff /\ e \notin Range(indexFile.entries)

\* C6: when the records entering the size pass sum to more than the budget,
\* the pass removes the shortest oldest-first prefix that brings the sum within
\* the budget: the survivors are the rest of the ascending order, they fit the
\* budget, and with one record fewer removed they would not.
C6_SizeRemovesShortestOldestPrefix ==
    (PassCompleted /\ TotalSize(last.ev.afterCount) > Budget)
    => LET asc == SortAsc(last.ev.afterCount)
           k == Len(asc) - Len(last.ev.final)
       IN /\ k >= 1
          /\ SortAsc(last.ev.final) = SubSeq(asc, k + 1, Len(asc))
          /\ TotalSize(last.ev.final) <= Budget
          /\ TotalSize(SubSeq(asc, k, Len(asc))) > Budget
          /\ indexFile.entries = last.ev.final

\* C6 witness: the scenario of sizes 1, 2, 7 saved in that order under the
\* budget of 9 (10, 20, 70 under 90): the pass leaves the 2 and the 7.
C6_Witness ==
    /\ PassCompleted
    /\ [i \in 1..Len(last.ev.afterCount) |-> last.ev.afterCount[i].file_size] = <<1, 2, 7>>
    /\ [i \in 1..Len(last.ev.afterCount) |-> last.ev.afterCount[i].timestamp] = <<0, 1, 2>>
    /\ [i \in 1..Len(indexFile.entries) |-> SortAsc(indexFile.entries)[i].file_size] = <<2, 7>>
    /\ TotalSize(indexFile.entries) = Budget

\* C7: after a pass in which no deletion failed, the payload file of every
\* record the pass removed from the index no longer exists.  Stated for saves
\* whose timestamps strictly increase; the claim covers every pass.
C7_RemovedEntriesFilesGone ==
    (PassCompleted /\ hist.increasing /\ last.ev.delFail = {})
    => \A e \in Dropped(last.ev.loaded, indexFile.entries) :
          e.filename \notin DOMAIN files

\* C8 as stated: a file with the payload suffix that no index record names
\* when an eviction pass starts is gone when the pass ends.
C8_OrphanDeletedByNextPass ==
    PassCompleted
    => \A n \in DOMAIN last.ev.filesIn :
          (EndsWithCache(n) /\ n \notin CachedFiles(last.ev.loaded))
          => n \notin DOMAIN files

\* C8 amended: ... is gone when the pass ends unless its deletion failed.
C8_OrphanDeletedUnlessDeleteFails ==
    PassCompleted
    => \A n \in DOMAIN last.ev.filesIn :
          (EndsWithCache(n) /\ n \notin CachedFiles(last.ev.loaded)
             /\ n \notin last.ev.delFail)
          => n \notin DOMAIN files

\* C8 witness: a pass started with an orphan in the directory and deleted it.
C8_Witness ==
    /\ PassCompleted
    /\ \E n \in DOMAIN last.ev.filesIn :
          /\ EndsWithCache(n) /\ n \notin CachedFiles(last.ev.loaded)
          /\ n \notin DOMAIN files

\* C9 as stated: after a successful save the payload file named by that save
\* reads back as an entry with the content, token_count and source_file_count
\* that were passed in.
C9_RoundTrip ==
    (last.op = "save" /\ last.ok)
    => /\ last.filename \in DOMAIN files
       /\ DeserializeEntry(files[last.filename]).ok
       /\ SameAsSaved(DeserializeEntry(files[last.filename]).entry, last.inp)

\* C9 amended: ... provided the file still exists after the save's own
\* eviction pass.
C9_RoundTripIfFilePresent ==
    (last.op = "save" /\ last.ok /\ last.filename \in DOMAIN files)
    => /\ DeserializeEntry(files[last.filename]).ok
       /\ SameAsSaved(DeserializeEntry(files[last.filename]).entry, last.inp)

\* C9 witness: a successful save whose payload file is on disk, saved into a
\* directory that already held an entry.
C9_Witness ==
    /\ last.op = "save" /\ last.ok
    /\ last.filename \in DOMAIN files
    /\ last.indexBefore # <<>>
    /\ SameAsSaved(DeserializeEntry(files[last.filename]).entry, last.inp)

\* The index record process p pushes
RecordOf(p) == IndexEntry(procs[p].entry, procs[p].filename)

\* Processes p and q have both loaded the same index and written theirs, q
\* after p, and neither has started its eviction pass; the two records differ
\* from each other and from the records loaded.
LostUpdateRace(p, q) ==
    /\ p # q
    /\ procs[p].pc = "index_written" /\ procs[q].pc = "index_written"
    /\ procs[p].loaded = procs[q].loaded
    /\ last.op = "index_write" /\ last.by = q
    /\ procs[p].entry.timestamp # procs[q].entry.timestamp
    /\ RecordOf(p) \notin Range(procs[p].loaded)

\* C10: when two concurrent saves load the same index and write it one after
\* the other, the index on disk holds the second writer's record and has lost
\* the first writer's; the first writer's payload file is then named by no
\* record (an orphan), unless another record carries the same file name.  The
\* witness shows the race reached with that file on disk.
C10_LaterWriteDropsEarlierRecord ==
    \A p \in Procs : \A q \in Procs :
        LostUpdateRace(p, q)
        => /\ RecordOf(p) \notin Range(indexFile.entries)
           /\ RecordOf(q) \in Range(indexFile.entries)
           /\ (procs[p].filename \notin CachedFiles(procs[q].loaded)
                 /\ procs[p].filename # procs[q].filename)
              => procs[p].filename \notin CachedFiles(indexFile.entries)

\* C10 witness: the race has happened and the first writer's file is an orphan.
C10_Witness ==
    \E p \in Procs : \E q \in Procs :
        /\ LostUpdateRace(p, q)
        /\ procs[p].filename \in DOMAIN files
        /\ procs[p].filename \notin CachedFiles(indexFile.entries)
        /\ RecordOf(p) \notin Range(indexFile.entries)

----------------------------------------------------------------------------
\* Two timestamps within one second of the clock
SameSecond(t1, t2) == t1 \div TicksPerSecond = t2 \div TicksPerSecond

\* The records of the sequence s that carry the file name n
Naming(s, n) == {i \in 1..Len(s) : s[i].filename = n}

\* C11: when a save follows an earlier save within the same second, the
\* record of the earlier save carries the file name the later save derives;
\* the index as written by the index step of the later save holds at least
\* two records with that one name while the file holds the serialized entry
\* of the later save; and when the eviction pass of the later save removes
\* no record, that is also the state the save leaves on disk.
C11_SameSecondSharesFile ==
    (last.op = "save" /\ last.ok) =>
        \A i \in 1..Len(last.indexBefore) :
            SameSecond(last.indexBefore[i].timestamp, last.entry.timestamp) =>
                /\ last.indexBefore[i].filename = last.filename
                /\ Cardinality(Naming(last.ev.loaded, last.filename)) >= 2
                /\ last.ev.loaded[Len(last.ev.loaded)]
                      = IndexEntry(last.entry, last.filename)
                /\ last.ev.filesIn[last.filename] = SerializeEntry(last.entry)
                /\ (Len(last.ev.final) = Len(last.ev.loaded) =>
                      /\ Cardinality(Naming(indexFile.entries, last.filename)) >= 2
                      /\ files[last.filename] = SerializeEntry(last.entry))

\* A second save half a second after a first one with another payload: two
\* records, one file, the content of the second
C11_Witness ==
    /\ last.op = "save" /\ last.ok
    /\ \E i \in 1..Len(last.indexBefore) :
          /\ last.indexBefore[i].timestamp < last.entry.timestamp
          /\ SameSecond(last.indexBefore[i].timestamp, last.entry.timestamp)
          /\ last.indexBefore[i].file_size # last.entry.file_size
          /\ last.indexBefore[i] \in Range(indexFile.entries)
    /\ Cardinality(Naming(indexFile.entries, last.filename)) = 2
    /\ DeserializeEntry(files[last.filename]).entry = last.entry

----------------------------------------------------------------------------
\* C12: every clear succeeds, whatever it finds (an unparsable index,
\* unparsable payload files, records without a file), and leaves the
\* sessions directory existing, without files and without index file; a
\* list would then return the empty sequence; and a second clear right
\* after the first succeeds too and ends in the state the first ended in.
C12_ClearEmptiesAndRepeats ==
    last.op = "clear" =>
        /\ last.ok
        /\ files = <<>>
        /\ indexFile.state = "absent"
        /\ SessionsDir(ResolvedDir(env).path) \in dirs
        /\ ListCacheEntries(indexFile).ok
        /\ ListCacheEntries(indexFile).entries = <<>>
        /\ (last.prev # <<>> =>
              /\ last.prev.ok
              /\ last.result = last.prev)

\* A clear that found an unparsable index and payload files
C12_Witness ==
    /\ last.op = "clear" /\ last.ok
    /\ last.inp.index = "unparsable" /\ last.inp.files > 0
    /\ files = <<>> /\ indexFile = NoIndex

\* A second clear right after a first one
C12_WitnessRepeated ==
    /\ last.op = "clear" /\ last.ok
    /\ last.prev # <<>>
    /\ hist.saves > 0
    /\ files = <<>> /\ indexFile = NoIndex

----------------------------------------------------------------------------
\* s holds its records by descending timestamp
NewestFirst(s) ==
    \A i, j \in 1..Len(s) : i < j => s[i].timestamp >= s[j].timestamp

\* s and t hold the same records, each as often in the one as in the other
SameRecords(s, t) ==
    /\ Len(s) = Len(t)
    /\ \A x \in Range(s) \cup Range(t) : Count(s, x) = Count(t, x)

\* C13: list returns the records of the index file, each as often as the
\* file holds it, by descending timestamp; without an index file it returns
\* the empty sequence and no error.
C13_ListIsIndexNewestFirst ==
    last.op = "list" =>
        /\ (indexFile.state = "absent" =>
              last.ok /\ last.result.entries = <<>>)
        /\ (indexFile.state = "ok" =>
              /\ last.ok
              /\ SameRecords(last.result.entries, indexFile.entries)
              /\ NewestFirst(last.result.entries))

\* A list of an index file that holds its records in another order
C13_Witness ==
    /\ last.op = "list" /\ last.ok
    /\ indexFile.state = "ok"
    /\ Len(indexFile.entries) >= 2
    /\ last.result.entries # indexFile.entries

\* A list without an index file, after a clear
C13_WitnessNoIndex ==
    /\ last.op = "list" /\ last.ok
    /\ indexFile.state = "absent"
    /\ hist.saves > 0

----------------------------------------------------------------------------
\* The kinds of failure of mostRecent, by the message of the error
ErrorKind(err) ==
    IF err \in {"No cache found", "No cache entries found"} THEN "EmptyCache"
    ELSE IF err \in {"Failed to read cache file", "Failed to parse cache entry"}
    THEN "MissingPayload"
    ELSE IF err = "Failed to parse cache index" THEN "CorruptIndex"
    ELSE "none"

\* The records of s with the maximum timestamp
Newest(s) == {x \in Range(s) : \A y \in Range(s) : y.timestamp <= x.timestamp}

\* The payload file of record x is there and can be parsed
Readable(x) == x.filename \in DOMAIN files /\ DeserializeEntry(files[x.filename]).ok

\* What mostRecent has returned, against the index and the files it was run on
MostRecentResult ==
    /\ (indexFile.state = "absent" \/ (indexFile.state = "ok" /\ indexFile.entries = <<>>)
          => ~last.ok /\ ErrorKind(last.result.err) = "EmptyCache")
    /\ (indexFile.state = "ok" /\ indexFile.entries # <<>> =>
          /\ last.ok =>
                \E x \in Newest(indexFile.entries) :
                    /\ Readable(x)
                    /\ last.result.entry = DeserializeEntry(files[x.filename]).entry
          /\ ~last.ok =>
                /\ ErrorKind(last.result.err) = "MissingPayload"
                /\ \E x \in Newest(indexFile.entries) : ~Readable(x)
          /\ (\A x \in Newest(indexFile.entries) : ~Readable(x)) => ~last.ok)

\* C14: mostRecent fails with EmptyCache when there is no index file or the
\* index holds no record; otherwise it takes the record with the maximum
\* timestamp and, when the payload file of that record is missing or cannot
\* be parsed, fails with MissingPayload whatever older records there are;
\* it leaves the index file and the payload files as they were.
C14_MostRecentFailures ==
    [][last'.op = "mostRecent" /\ last' # last =>
          /\ indexFile' = indexFile
          /\ files' = files
          /\ MostRecentResult']_vars

\* mostRecent fails on the unparsable payload file of the newest record
\* while an older record has a payload file that can be read
C14_Witness ==
    /\ last.op = "mostRecent" /\ ~last.ok
    /\ ErrorKind(last.result.err) = "MissingPayload"
    /\ indexFile.state = "ok"
    /\ \E x \in Newest(indexFile.entries) :
          x.filename \in DOMAIN files /\ ~DeserializeEntry(files[x.filename]).ok
    /\ \E y \in Range(indexFile.entries) : y \notin Newest(indexFile.entries) /\ Readable(y)

\* mostRecent fails with EmptyCache on an index that holds no record (the
\* size pass has removed the only, oversize, entry: reached under Spec)
C14_WitnessEmpty ==
    /\ last.op = "mostRecent" /\ ~last.ok
    /\ ErrorKind(last.result.err) = "EmptyCache"
    /\ indexFile.state = "ok" /\ indexFile.entries = <<>>

----------------------------------------------------------------------------
\* A variable is set, whatever it holds
IsSet(value) == value # None

\* A variable is set and holds valid Unicode
IsText(value) == value \notin {None, NotUnicode}

\* A step that is a call of get_cache_dir on its own
ResolveStep == last'.op = "resolve" /\ last' # last

\* What a call of resolveDirectory does, Has(v) telling which variables count:
\* it fails, changing nothing, when there is no override and neither variable
\* counts, or when the storage subdirectory is missing and cannot be created;
\* otherwise it returns the override, else the XDG cache home joined with the
\* application directory name, else the home-relative default, and the
\* storage subdirectory of that path exists afterwards, nothing else having
\* changed; a call that follows a successful call returns the same path and
\* changes nothing.
ResolveContract(Has(_)) ==
    LET expected == IF env.override # None THEN <<env.override>>
                    ELSE IF Has(env.XDG_CACHE_HOME)
                    THEN <<env.XDG_CACHE_HOME, "xhinobi">>
                    ELSE <<env.HOME, ".cache", "xhinobi">>
        failing == \/ /\ env.override = None
                      /\ ~Has(env.XDG_CACHE_HOME) /\ ~Has(env.HOME)
                   \/ SessionsDir(expected) \notin dirs /\ ~env.creatable
    IN /\ failing => ~last'.ok /\ dirs' = dirs
       /\ ~failing =>
             /\ last'.ok
             /\ last'.result.path = expected
             /\ SessionsDir(expected) \in dirs'
             /\ dirs' = dirs \cup {SessionsDir(expected)}
       /\ (last.op = "resolve" /\ last.ok) =>
             /\ last'.ok
             /\ last'.result.path = last.result.path
             /\ dirs' = dirs

\* C15 as stated: the contract of resolveDirectory with every variable that
\* is set counting.
C15_ResolveDirectory == [][ResolveStep => ResolveContract(IsSet)]_vars

\* C15, amended: the contract of resolveDirectory with the variables
\* counting that are set to valid Unicode.
C15_ResolveDirectoryOfText == [][ResolveStep => ResolveContract(IsText)]_vars

\* A second call after a successful first one that created the storage
\* subdirectory under the home-relative default, XDG_CACHE_HOME being set
\* but not Unicode
C15_Witness ==
    /\ last.op = "resolve" /\ last.ok
    /\ last.prev # <<>> /\ last.prev.ok
    /\ env.override = None /\ env.XDG_CACHE_HOME = NotUnicode /\ IsText(env.HOME)
    /\ last.result.path = <<env.HOME, ".cache", "xhinobi">>
    /\ dirs = {SessionsDir(last.result.path)}

\* A call that returns the XDG cache home joined with the directory name
C15_WitnessXdg ==
    /\ last.op = "resolve" /\ last.ok
    /\ env.override = None /\ IsText(env.XDG_CACHE_HOME) /\ IsText(env.HOME)
    /\ last.result.path = <<env.XDG_CACHE_HOME, "xhinobi">>

\* A call that fails because the subdirectory cannot be created
C15_WitnessFails ==
    /\ last.op = "resolve" /\ ~last.ok
    /\ env.override # None /\ ~env.creatable
    /\ SessionsDir(<<env.override>>) \notin dirs

----------------------------------------------------------------------------
\* A step that is one whole save invocation
SaveStep == hist'.saves = hist.saves + 1

\* The save of the step got as far as writing its payload file in full
PayloadWritten == last'.fault \notin {"payload_write", "payload_partial"}

\* C16: a save that meets an index file that is there but cannot be parsed
\* fails; it leaves the index file as it was; no eviction runs, so no file
\* is removed; and the payload file it has written stays in the directory,
\* which holds no index record that names it.
C16_UnparsableIndexStopsSave ==
    [][SaveStep /\ indexFile.state = "unparsable" /\ PayloadWritten =>
          /\ ~last'.ok
          /\ indexFile' = indexFile
          /\ last'.ev = NoEviction
          /\ files' = WriteFile(files, last'.filename, SerializeEntry(last'.entry))
          /\ LoadOrEmpty(indexFile').entries = <<>>]_vars

\* A save that failed on the unparsable index with no failing write of its
\* own, its payload file lying next to that of an earlier save
C16_Witness ==
    /\ last.op = "save" /\ ~last.ok /\ last.fault = "none"
    /\ indexFile.state = "unparsable"
    /\ last.filename \in DOMAIN files
    /\ files[last.filename] = SerializeEntry(last.entry)
    /\ \E n \in DOMAIN files : n # last.filename

----------------------------------------------------------------------------
\* The last operation was a save none of whose writes failed and in whose
\* eviction pass the deletion of at least one file was tried and failed
DeletionFailed == last.op = "save" /\ last.fault = "none" /\ last.ev.delFail # {}

\* The pass of the last save has completed and has written the index
\* without the records it removed
PassPersisted ==
    /\ last.ok /\ last.ev.ran
    /\ indexFile = OkIndex(last.ev.final)
    /\ \A x \in Dropped(last.ev.loaded, last.ev.final) :
           Count(indexFile.entries, x) < Count(last.ev.loaded, x)

\* C17: when the deletion of a payload file fails during the size pass or
\* the sweep, the pass still completes and writes the index without the
\* records it removed, and every file whose deletion failed is then an
\* orphan: it is in the directory, no index record names it, and the sweep
\* of a next pass would try to delete it.  (Stated for saves at strictly
\* increasing timestamps.)
C17_FailedDeletionLeavesOrphan ==
    (DeletionFailed /\ hist.increasing) =>
        /\ PassPersisted
        /\ \A n \in last.ev.delFail :
              /\ n \in DOMAIN files
              /\ n \notin CachedFiles(indexFile.entries)
              /\ n \in SweepTargets(files, indexFile.entries)

\* The same with the file that a surviving record of the same second names
\* left aside: that file stays, and is not an orphan.
C17_FailedDeletionUnlessShared ==
    DeletionFailed =>
        /\ PassPersisted
        /\ \A n \in last.ev.delFail :
              /\ n \in DOMAIN files
              /\ n \notin CachedFiles(indexFile.entries) =>
                    n \in SweepTargets(files, indexFile.entries)

\* A failed deletion that left an orphan
C17_Witness ==
    /\ DeletionFailed /\ PassPersisted
    /\ \E n \in last.ev.delFail :
          n \in DOMAIN files /\ n \notin CachedFiles(indexFile.entries)
    /\ Dropped(last.ev.loaded, last.ev.final) # {}

----------------------------------------------------------------------------
\* The index file as the index step of the save of this step leaves it
Appended ==
    OkIndex(Append(LoadOrEmpty(indexFile).entries,
                   IndexEntry(last'.entry, last'.filename)))

\* The eviction pass of the save of this step took its bounds in the order
\* age, count, size, each on what the one before had left
BoundsInOrder ==
    LET ev == last'.ev
    IN /\ ev.loaded = Appended.entries
       /\ ev.afterAge = SelectSeq(ev.loaded, LAMBDA e : e.timestamp > ev.cutoff)
       /\ (Len(ev.afterAge) <= MAX_CACHE_ENTRIES => ev.afterCount = ev.afterAge)
       /\ (Len(ev.afterAge) > MAX_CACHE_ENTRIES =>
             /\ Len(ev.afterCount) = MAX_CACHE_ENTRIES
             /\ Range(ev.afterCount) \subseteq Range(ev.afterAge))
       /\ (TotalSize(ev.afterCount) <= Budget => ev.final = ev.afterCount)
       /\ Range(ev.final) \subseteq Range(ev.afterCount)
       /\ TotalSize(ev.final) <= Budget

\* The sweep of the save of this step has run, on the records the size pass
\* left: of the payload files none of them names, only those are still there
\* whose deletion failed; and no file came to be other than the payload file
SweepDone ==
    /\ \A n \in DOMAIN files' :
          EndsWithCache(n) /\ n \notin CachedFiles(last'.ev.final)
              => n \in last'.ev.delFail
    /\ DOMAIN files' \subseteq DOMAIN files \cup {last'.filename}

\* C18: a save writes its payload file, then appends to the index, then
\* evicts; the eviction pass applies the age bound, the count bound and the
\* size bound in this order, each to the records the one before left, then
\* sweeps, then writes the index.  Seen from the outside: a save whose
\* payload write fails leaves files and index as they were; one whose index
\* write fails leaves the payload file written, the index as it was and no
\* file deleted; one whose final index write fails leaves the index as the
\* index step wrote it while the deletions of the pass have been done; and
\* one without a failing write leaves the survivors of the size pass in the
\* index, after the sweep.
C18_StepsInOrder ==
    [][SaveStep /\ LoadOrEmpty(indexFile).ok =>
          /\ last'.fault = "payload_write" =>
                files' = files /\ indexFile' = indexFile /\ last'.ev = NoEviction
          /\ last'.fault = "index_write" =>
                /\ files' = WriteFile(files, last'.filename, SerializeEntry(last'.entry))
                /\ indexFile' = indexFile
                /\ last'.ev = NoEviction
          /\ last'.fault = "cleanup_write" =>
                /\ ~last'.ok
                /\ indexFile' = Appended
                /\ BoundsInOrder
                /\ SweepDone
          /\ last'.fault = "none" =>
                /\ last'.ok
                /\ BoundsInOrder
                /\ SweepDone
                /\ indexFile' = OkIndex(last'.ev.final)]_vars

\* A save whose final index write failed after the size pass had removed a
\* record and deleted its file: the file is gone, the index still holds the
\* record
C18_Witness ==
    /\ last.op = "save" /\ last.fault = "cleanup_write"
    /\ Len(last.ev.final) < Len(last.ev.loaded)
    /\ indexFile.entries = last.ev.loaded
    /\ \E n \in DOMAIN last.ev.filesIn : n \notin DOMAIN files

\* A save whose age pass brought the index within the count bound (reached
\* under Spec)
C18_WitnessAgeBeforeCount ==
    /\ last.op = "save" /\ last.ok
    /\ Len(last.ev.loaded) > MAX_CACHE_ENTRIES
    /\ Len(last.ev.afterAge) = MAX_CACHE_ENTRIES
    /\ indexFile.entries = last.ev.afterAge

----------------------------------------------------------------------------
\* The files that were in the directory during the save of this step and
\* are not there after it
Deleted == (DOMAIN files \cup {last'.filename}) \ DOMAIN files'

\* The file names of the records the size pass of this step removed; the
\* size pass deletes their files itself
SizeEvicted ==
    {x.filename : x \in Dropped(last'.ev.afterCount, last'.ev.final)}

\* The name has the payload suffix
PayloadName(n) == n.ext = ".cache"

\* C19: of the files a save finds in the directory, its eviction pass
\* leaves every file without the payload suffix in place and unchanged; a
\* file it deletes has the payload suffix and is either named by no record of
\* the final index (the sweep) or the file of a record the size pass
\* removed; and when the pass is through the index file is there.
C19_SweepTakesOnlyOrphans ==
    [][SaveStep =>
          /\ \A n \in DOMAIN files :
                ~PayloadName(n) => n \in DOMAIN files' /\ files'[n] = files[n]
          /\ \A n \in Deleted :
                /\ PayloadName(n)
                /\ n \notin CachedFiles(last'.ev.final) \/ n \in SizeEvicted
          /\ last'.ev.ran =>
                indexFile'.state = "ok" /\ indexFile'.entries = last'.ev.final]_vars

\* A pass whose sweep has deleted a payload file that no record named when
\* the save began, next to the foreign file, which is still there
C19_Witness ==
    /\ last.op = "save" /\ last.ev.ran
    /\ ForeignFile \in DOMAIN files /\ files[ForeignFile] = ForeignDir[ForeignFile]
    /\ \E n \in DOMAIN last.ev.filesIn :
          /\ n \notin DOMAIN files
          /\ n \notin CachedFiles(last.ev.loaded)

----------------------------------------------------------------------------
\* A step that is a clear
ClearStep == last'.op = "clear" /\ last' # last

\* C20: a payload file, once written, keeps its content through every later
\* operation, later saves included, for as long as it is there; and it is
\* removed only by a save (its eviction pass) or by a clear.  (Stated for
\* saves at strictly increasing timestamps.)
C20_PayloadFileImmutable ==
    [][hist'.increasing =>
          \A n \in DOMAIN files :
              /\ n \in DOMAIN files' => files'[n] = files[n]
              /\ n \notin DOMAIN files' => SaveStep \/ ClearStep]_vars

\* The same with the overwriting save left aside: the content of a payload
\* file changes only in a save that derives the name of that file, and
\* becomes the serialized entry of that save; removal as above.
C20_PayloadFileChangedOnlyBySameName ==
    [][\A n \in DOMAIN files :
          /\ (n \in DOMAIN files' /\ files'[n] # files[n]) =>
                /\ SaveStep
                /\ n = last'.filename
                /\ files'[n] = SerializeEntry(last'.entry)
          /\ n \notin DOMAIN files' => SaveStep \/ ClearStep]_vars

\* A payload file whose content a later save of the same second has replaced
C20_Witness ==
    /\ last.op = "save" /\ last.ok /\ hist.increasing
    /\ last.filename \in DOMAIN files
    /\ \E i \in 1..Len(last.indexBefore) :
          /\ last.indexBefore[i].filename = last.filename
          /\ last.indexBefore[i].timestamp < last.entry.timestamp
          /\ last.indexBefore[i].file_size # last.entry.file_size
    /\ files[last.filename] = SerializeEntry(last.entry)

----------------------------------------------------------------------------
RECURSIVE IsSubSeq(_, _)
\* The records of s occur in t, in the order they have in s
IsSubSeq(s, t) ==
    IF s = <<>> THEN TRUE
    ELSE IF t = <<>> THEN FALSE
    ELSE IF s[1] = t[1] THEN IsSubSeq(Tail(s), Tail(t))
    ELSE IsSubSeq(s, Tail(t))

\* The eviction pass of the save of this step met an index over the count
\* bound or over the byte budget
BoundExceeded ==
    \/ Len(last'.ev.afterAge) > MAX_CACHE_ENTRIES
    \/ TotalSize(last'.ev.afterCount) > Budget

\* C21 as stated: the index a save leaves on disk holds the records the
\* index held before, followed by the record of the save, less the records
\* the eviction pass removed, in their order.  (Stated for saves at strictly
\* increasing timestamps.)
C21_IndexInAppendOrder ==
    [][SaveStep /\ last'.ev.ran /\ hist'.increasing =>
          IsSubSeq(indexFile'.entries, Appended.entries)]_vars

\* C21, amended: a save appends its record at the end of the index; its
\* eviction pass keeps the order of the survivors when neither the count
\* bound nor the byte budget is exceeded, and otherwise writes the survivors
\* by descending timestamp.
C21_AppendOrderUnlessBoundExceeded ==
    [][SaveStep /\ last'.ev.ran =>
          /\ last'.ev.loaded = Appended.entries
          /\ ~BoundExceeded =>
                /\ indexFile'.entries = last'.ev.afterAge
                /\ IsSubSeq(indexFile'.entries, Appended.entries)
          /\ BoundExceeded => NewestFirst(indexFile'.entries)]_vars

\* A save whose size pass has left two records of different age on disk,
\* the newer one first
C21_Witness ==
    /\ last.op = "save" /\ last.ev.ran /\ hist.increasing
    /\ TotalSize(last.ev.afterCount) > Budget
    /\ Len(indexFile.entries) >= 2
    /\ indexFile.entries[1].timestamp > indexFile.entries[2].timestamp
    /\ ~IsSubSeq(indexFile.entries, last.ev.loaded)

----------------------------------------------------------------------------
\* Record x occurs in t at most as often as in s, for every x: t is a
\* sub-collection of s
SubCollection(t, s) == \A x \in Range(t) : Count(t, x) <= Count(s, x)

\* The records the index file holds after this step more often than before
Gained ==
    {x \in Range(indexFile'.entries) :
        Count(indexFile'.entries, x) > Count(indexFile.entries, x)}

\* C22: the only record a step adds to the index file is the record a save
\* makes of the entry it was given, once; a step that is not a save adds
\* none, whatever payload files lie in the directory; and the index an
\* eviction pass writes is a sub-collection of the index it loaded.
C22_IndexOnlySource ==
    [][/\ \A x \in Gained :
             /\ SaveStep
             /\ x = IndexEntry(NewEntry(now, last'.inp), Filename(now))
             /\ Count(indexFile'.entries, x) = Count(indexFile.entries, x) + 1
       /\ (SaveStep /\ last'.ev.ran) =>
             /\ SubCollection(indexFile'.entries, last'.ev.loaded)
             /\ SubCollection(last'.ev.loaded, Appended.entries)]_vars

\* An eviction pass has run with a payload file in the directory that held
\* a whole entry of which the index never had a record (the index write of
\* its save had failed); the index the pass wrote holds no record of it
C22_Witness ==
    /\ last.op = "save" /\ last.ev.ran
    /\ \E n \in DOMAIN last.ev.filesIn :
          /\ n.ext = ".cache"
          /\ n \notin CachedFiles(last.ev.loaded)
          /\ DeserializeEntry(last.ev.filesIn[n]).ok
          /\ n \notin CachedFiles(indexFile.entries)
    /\ last.ev.loaded = last.ev.final
    /\ indexFile.entries # <<>>

----------------------------------------------------------------------------
\* The size pass on its own is under way or through
InSizePass == last.op = "size_pass"

\* Where the size pass stands: the records left and the iterations done add
\* up to the records the pass began with, the total is the sum of the sizes
\* of the records left, that is, what it was at the beginning less the sizes
\* of the oldest records, one per iteration, and so not below zero; at the
\* end the total is at or below the budget or no record is left.
SizePassStands ==
    InSizePass =>
        LET r == last.result
        IN /\ r.iterations + Len(r.entries) = Len(r.began)
           /\ r.iterations <= Len(r.began)
           /\ r.total = TotalSize(r.entries)
           /\ r.total = TotalSize(r.began)
                        - TotalSize(SubSeq(SortAsc(r.began), 1, r.iterations))
           /\ r.total >= 0
           /\ SubCollection(r.entries, r.began)
           /\ r.pc = "loop" => ENABLED (SizeIteration \/ SizeEnd)
           /\ r.pc = "done" =>
                 /\ r.total <= Budget \/ r.entries = <<>>
                 /\ r.entries = SizePass(r.began, <<>>, {}).entries

\* C23: the size pass comes to its end on every index: in the loop there is
\* always a next step, and every step of the loop either is its last or
\* removes exactly one record, the oldest, takes the file_size of that
\* record off the total and adds one to the iterations, of which there are at
\* most as many as records; the total is never below zero; and the loop ends
\* with the total at or below the budget or with no record left.
C23_SizePassTerminates ==
    /\ []SizePassStands
    /\ [][(InSizePass /\ last.result.pc = "loop") =>
             \/ /\ last'.result.pc = "done"
                /\ last'.result.iterations = last.result.iterations
                /\ ~(last.result.total > Budget /\ last.result.entries # <<>>)
             \/ /\ last'.result.pc = "loop"
                /\ last.result.total > Budget
                /\ last'.result.iterations = last.result.iterations + 1
                /\ last'.result.entries = Tail(last.result.entries)
                /\ last'.result.total
                      = last.result.total - last.result.entries[1].file_size]_vars

\* The loop has removed every record of an index of three, the last one
\* alone being over the budget
C23_Witness ==
    /\ InSizePass /\ last.result.pc = "done"
    /\ last.result.iterations = MAX_CACHE_ENTRIES
    /\ last.result.entries = <<>>
    /\ last.result.total = 0
    /\ files = <<>>

----------------------------------------------------------------------------
\* The last operation was a save of a payload that alone is over the budget
OversizeSave == last.op = "save" /\ last.entry.file_size > Budget

\* No record in the index file, no payload file in the directory
CacheEmptied ==
    /\ indexFile.state = "ok" /\ indexFile.entries = <<>>
    /\ \A n \in DOMAIN files : n.ext # ".cache"

\* C24: a save of a payload that alone is over the budget succeeds, and the
\* eviction pass it runs removes every record, its own included, and leaves
\* no record in the index and no payload file in the directory.  (Stated for
\* saves at strictly increasing timestamps.)
C24_OversizeSaveEmptiesCache ==
    (OversizeSave /\ hist.increasing) => last.ok /\ CacheEmptied

\* The same while the index is within the count bound, where the count pass
\* does nothing
C24_OversizeSaveWithinCount ==
    (OversizeSave /\ Len(last.ev.afterAge) <= MAX_CACHE_ENTRIES) =>
        last.ok /\ CacheEmptied

\* An oversize save that has emptied a cache of two entries
C24_Witness ==
    /\ OversizeSave /\ last.ok /\ hist.increasing
    /\ Len(last.ev.loaded) = MAX_CACHE_ENTRIES
    /\ CacheEmptied

----------------------------------------------------------------------------
\* Both concurrent invocations have run to their end
BothCompleted == \A p \in Procs : procs[p].pc = "done"

\* The two invocations took timestamps in different seconds, so that they
\* wrote two different payload files
DistinctFiles == \A p \in Procs : \A q \in Procs :
                    p # q => procs[p].filename # procs[q].filename

\* C25: once two concurrent saves on the same directory have both completed,
\* every record of the persisted index names a payload file that exists, in
\* whatever order their file-level steps were interleaved.  (Stated for two
\* saves that wrote different payload files.)
C25_ConcurrentSavesKeepFiles ==
    (BothCompleted /\ DistinctFiles)
    => \A e \in Range(indexFile.entries) : e.filename \in DOMAIN files

----------------------------------------------------------------------------
\* Only one process has ever run: its saves follow one another, and every
\* state between two of its file-system steps is a state an interruption of
\* the save leaves on disk
SingleProcess == \E p \in Procs : \A q \in Procs \ {p} : procs[q] = Idle

\* No two records of the index file were saved within one second
DistinctSeconds ==
    \A i \in DOMAIN indexFile.entries : \A j \in DOMAIN indexFile.entries :
        i # j => ~SameSecond(indexFile.entries[i].timestamp,
                             indexFile.entries[j].timestamp)

\* The clock has not advanced since the running save took its timestamp: the
\* save is short against the retention window
Prompt == \A p \in Procs :
             procs[p].pc \notin {"idle", "done"} => procs[p].entry.timestamp = now

\* C26: wherever a single-process save is interrupted between two of its
\* file-system steps, every record of the index file on disk names a payload
\* file that exists; a payload file may lack a record, never a record its
\* file.  (Stated for records saved in different seconds.)
C26_InterruptedSaveKeepsFiles ==
    (SingleProcess /\ DistinctSeconds /\ Prompt)
    => \A e \in Range(indexFile.entries) : e.filename \in DOMAIN files

\* The same for interruptions before the eviction pass has deleted a file:
\* after the payload write, the index read, the index write and the
\* eviction's index read
C26_InterruptedBeforeDeletions ==
    (SingleProcess /\ DistinctSeconds /\ Prompt /\
     \A p \in Procs : procs[p].pc \notin {"evict_sized", "evict_swept", "done"})
    => \A e \in Range(indexFile.entries) : e.filename \in DOMAIN files

\* A second save interrupted right after its index write: two records, two
\* payload files
C26_Witness ==
    /\ SingleProcess /\ DistinctSeconds /\ Prompt
    /\ \E p \in Procs : procs[p].pc = "index_written"
    /\ Len(indexFile.entries) = 2
    /\ \A e \in Range(indexFile.entries) : e.filename \in DOMAIN files

----------------------------------------------------------------------------
\* The step is a call of load_most_recent_cache or of list_cache_entries
ReadStep == last'.op \in {"mostRecent", "list"} /\ last'.op # last.op

\* The sessions directory of the environment
StorageDir == SessionsDir(ResolvedDir(env).path)

\* C27: mostRecent and list, succeeding or failing, leave the index file and
\* every payload file as they were; all they may do is create the sessions
\* directory when it is absent.
C27_ReadsLeaveFilesAlone ==
    [][ReadStep => /\ files' = files
                   /\ indexFile' = indexFile
                   /\ dirs \subseteq dirs'
                   /\ dirs' \ dirs \subseteq {StorageDir}]_vars

\* C27 witness: a list has succeeded on an index of two records that is not
\* in the order list returns, and the index file is still in that order.
C27_Witness ==
    /\ last.op = "list" /\ last.ok
    /\ Len(indexFile.entries) = 2
    /\ last.result.entries # indexFile.entries
    /\ \A e \in Range(indexFile.entries) : e.filename \in DOMAIN files

\* C27 witness: a read operation has failed on an index file that does not
\* parse, and the file is still there with the payload files.
C27_WitnessFails ==
    /\ last.op \in {"mostRecent", "list"} /\ ~last.ok
    /\ indexFile.state = "unparsable"
    /\ files # <<>>

\* C27 witness: a read operation before any save has created the sessions
\* directory, and nothing else.
C27_WitnessCreatesDir ==
    /\ last.op \in {"mostRecent", "list"}
    /\ hist.saves = 0
    /\ dirs = {StorageDir}
    /\ files = <<>> /\ indexFile = NoIndex
====
